---- MODULE Spec2Model ----
(***************************************************************************)
(* A model of the gender pay gap audit script (src/code.py).               *)
(*                                                                         *)
(* The script is one straight-line program.  Each statement that changes   *)
(* the program's state is one action; pc holds the line number of the next *)
(* statement.  The data frame is column oriented, as in pandas: data maps  *)
(* a column name to the sequence of its cells.                             *)
(*                                                                         *)
(* Values the model cannot hold exactly are kept symbolically: np.log(x)   *)
(* is the record [log |-> x]; a mean is the pair [sum, cnt]; the fitted    *)
(* coefficients of a regression are not represented, only the design the   *)
(* formula asks for.  Department, job title and education names are        *)
(* integers standing for the rank of the name in lexicographic order.      *)
(***************************************************************************)
EXTENDS Integers, Sequences, FiniteSets, TLC

\* ------------------------------------------------------------ bounds
NRows == 2
AgeMargin == 1
MaxPay == 1
MaxBonus == 1
NDept == 2
NJob == 2

\* A missing numeric cell (pandas NaN) and a missing text cell.
NaN == -1
NaNStr == "NaN"

VARIABLES
    pc,            \* line of the next statement
    data,          \* the data frame: column name -> cells
    categories,    \* categorical columns: column name -> sorted categories
    observed,      \* the installed pandas' default for groupby(observed=...)
    tables,        \* the summary tables computed so far: name -> table
    models,        \* the fitted regressions: name -> design
    results_table, \* summary_col's table
    html_content,  \* the HTML of the regression table, as tokens
    files          \* the files written so far: name -> content

vars == <<pc, data, categories, observed, tables, models, results_table, html_content, files>>

\* The parts of the state a statement of one section leaves alone.
reports == <<tables, models, results_table, html_content, files>>

Rows == 1..NRows

\* ------------------------------------------------------------ input
\* The ages around each edge of the age bins, and a missing age.
AgeEdges == {25, 35, 45, 55}
Ages == {e + d : e \in AgeEdges, d \in (0 - AgeMargin)..AgeMargin} \cup {NaN}
BasePays == 0..MaxPay
Bonuses == 0..MaxBonus
Genders == {"Female", "Male", NaNStr}
Depts == 1..NDept
JobTitles == 1..NJob

Const(v) == [i \in Rows |-> v]

DefaultData ==
    [age |-> Const(30), basePay |-> Const(1), bonus |-> Const(0),
     gender |-> Const("Male"), dept |-> Const(1), jobTitle |-> Const(1),
     edu |-> Const(1), perfEval |-> Const(3), seniority |-> Const(2)]

\* The data sets read by read_csv.  Every statement of the script works on
\* columns independently, so the input varies one group of columns at a time.
\* The age bins are assigned row by row, so the order of the rows does not
\* matter to them: the ages are listed in non-decreasing order.
AgeData ==
    {[DefaultData EXCEPT !.age = a] :
        a \in {f \in [Rows -> Ages] : \A i, j \in Rows : i < j => f[i] <= f[j]}}

PayData ==
    {[DefaultData EXCEPT !.basePay = b, !.bonus = c] :
        b \in [Rows -> BasePays], c \in [Rows -> Bonuses]}

DeptData ==
    {[DefaultData EXCEPT !.gender = g, !.dept = d] :
        g \in [Rows -> Genders], d \in [Rows -> Depts]}

\* Each job title belongs to one department.
DeptOfJob(j) == ((j - 1) % NDept) + 1

JobData ==
    {[DefaultData EXCEPT !.gender = g, !.jobTitle = j,
                         !.dept = [i \in Rows |-> DeptOfJob(j[i])]] :
        g \in [Rows -> Genders], j \in [Rows -> JobTitles]}

read_csv == AgeData \cup PayData \cup DeptData \cup JobData

\* ------------------------------------------------------------ data frame helpers
HasCol(df, c) == c \in DOMAIN df

\* df[c] = v
SetCol(df, c, v) == [k \in DOMAIN df \cup {c} |-> IF k = c THEN v ELSE df[k]]

\* df.loc[mask, c] = val
LocAssign(df, mask, c, val) ==
    SetCol(df, c, [i \in Rows |-> IF mask[i] THEN val ELSE df[c][i]])

\* Comparisons with NaN are False.
Lt(col, n) == [i \in Rows |-> col[i] # NaN /\ col[i] < n]
Ge(col, n) == [i \in Rows |-> col[i] # NaN /\ col[i] >= n]
MaskAnd(m1, m2) == [i \in Rows |-> m1[i] /\ m2[i]]

Goto(from, to) == pc = from /\ pc' = to

\* ------------------------------------------------------------ age bins
AgeMask1(df) == Lt(df.age, 25)
AgeMask2_NoLowerEdge(df) == MaskAnd([i \in Rows |-> df.age[i] # NaN /\ df.age[i] > 25], Lt(df.age, 35))
AgeMask2(df) == MaskAnd(Ge(df.age, 25), Lt(df.age, 35))
AgeMask3(df) == MaskAnd(Ge(df.age, 35), Lt(df.age, 45))
AgeMask4(df) == MaskAnd(Ge(df.age, 45), Lt(df.age, 55))
AgeMask5(df) == Ge(df.age, 55)

AgeBinInit ==
    /\ Goto("L33", "L34")
    /\ data' = SetCol(data, "age_bin", Const(0))
    /\ UNCHANGED <<categories, observed, reports>>

AgeBin1 ==
    /\ Goto("L34", "L35")
    /\ data' = LocAssign(data, AgeMask1(data), "age_bin", 1)
    /\ UNCHANGED <<categories, observed, reports>>

AgeBin2 ==
    /\ Goto("L35", "L36")
    /\ data' = LocAssign(data, AgeMask2(data), "age_bin", 2)
    /\ UNCHANGED <<categories, observed, reports>>

AgeBin3 ==
    /\ Goto("L36", "L37")
    /\ data' = LocAssign(data, AgeMask3(data), "age_bin", 3)
    /\ UNCHANGED <<categories, observed, reports>>

AgeBin4 ==
    /\ Goto("L37", "L38")
    /\ data' = LocAssign(data, AgeMask4(data), "age_bin", 4)
    /\ UNCHANGED <<categories, observed, reports>>

AgeBin5 ==
    /\ Goto("L38", "L41")
    /\ data' = LocAssign(data, AgeMask5(data), "age_bin", 5)
    /\ UNCHANGED <<categories, observed, reports>>

\* ------------------------------------------------------------ compensation
\* np.log(x), kept symbolically by its argument (-inf at 0, nan below 0).
NpLog(x) == [log |-> x]

TotalPayOf(df) == [i \in Rows |-> df.basePay[i] + df.bonus[i]]
LogBaseOf(df) == [i \in Rows |-> NpLog(df.basePay[i])]
LogTotalOf(df) == [i \in Rows |-> NpLog(df.totalPay[i])]
LogBonusOf_NoPlusOne(df) == [i \in Rows |-> NpLog(df.bonus[i])]
LogBonusOf(df) == [i \in Rows |-> NpLog(df.bonus[i] + 1)]

TotalPay ==
    /\ Goto("L41", "L44")
    /\ data' = SetCol(data, "totalPay", TotalPayOf(data))
    /\ UNCHANGED <<categories, observed, reports>>

LogBase ==
    /\ Goto("L44", "L45")
    /\ data' = SetCol(data, "log_base", LogBaseOf(data))
    /\ UNCHANGED <<categories, observed, reports>>

LogTotal ==
    /\ Goto("L45", "L46")
    /\ HasCol(data, "totalPay")
    /\ data' = SetCol(data, "log_total", LogTotalOf(data))
    /\ UNCHANGED <<categories, observed, reports>>

LogBonus ==
    /\ Goto("L46", "L49")
    /\ data' = SetCol(data, "log_bonus", LogBonusOf(data))
    /\ UNCHANGED <<categories, observed, reports>>

\* ------------------------------------------------------------ gender dummy
\* (data['gender'] == 'Male').astype(int)
MaleOf_FemaleIsOne(df) == [i \in Rows |-> IF df.gender[i] = "Female" THEN 1 ELSE 0]
MaleOf(df) == [i \in Rows |-> IF df.gender[i] = "Male" THEN 1 ELSE 0]

Male ==
    /\ Goto("L49", "L55")
    /\ data' = SetCol(data, "male", MaleOf(data))
    /\ UNCHANGED <<categories, observed, reports>>

\* ------------------------------------------------------------ categorical casts
\* Lexicographic rank of a cell of column c: the text cells are the gender
\* names, the cells of the other columns are ranks already.
TextRank(v) == IF v = "Female" THEN 1 ELSE IF v = "Male" THEN 2 ELSE 3
RankOf(c, v) == IF c = "gender" THEN TextRank(v) ELSE v

\* The sorted unique non-missing values of column c.
SortedUnique(c, S) ==
    CHOOSE s \in [1..Cardinality(S) -> S] :
        \A i, j \in 1..Cardinality(S) : i < j => RankOf(c, s[i]) < RankOf(c, s[j])

IndexOf(s, v) == CHOOSE k \in 1..Len(s) : s[k] = v

\* astype('category'): the cells become codes into the sorted categories,
\* 0-based, with -1 for a missing cell.
Codes(col, cats, na) ==
    [i \in Rows |-> IF col[i] = na THEN -1 ELSE IndexOf(cats, col[i]) - 1]

CastCategory(c, na) ==
    LET cats == SortedUnique(c, {data[c][i] : i \in Rows} \ {na})
    IN  /\ data' = SetCol(data, c, Codes(data[c], cats, na))
        /\ categories' = SetCol(categories, c, cats)
        /\ UNCHANGED <<observed, reports>>

\* The value of a cell of a categorical column.
Decode(df, cat, c, i, na) ==
    IF c \in DOMAIN cat
    THEN IF df[c][i] = -1 THEN na ELSE cat[c][df[c][i] + 1]
    ELSE df[c][i]

CastJobTitle ==
    /\ Goto("L55", "L56")
    /\ CastCategory("jobTitle", NaN)

CastGender ==
    /\ Goto("L56", "L57")
    /\ CastCategory("gender", NaNStr)

CastEdu ==
    /\ Goto("L57", "L58")
    /\ CastCategory("edu", NaN)

CastDept ==
    /\ Goto("L58", "L66")
    /\ CastCategory("dept", NaN)

\* ------------------------------------------------------------ summary statistics
LogCols == {"log_base", "log_total", "log_bonus"}
CatCols == {"jobTitle", "gender", "edu", "dept"}

\* A cell that describe() and the aggregations skip.
Missing(df, c, i) == IF c \in LogCols THEN df[c][i].log < 0 ELSE df[c][i] = NaN

Count(df, c, members) == Cardinality({i \in members : ~Missing(df, c, i)})

RECURSIVE Sum(_, _, _)
Sum(df, c, members) ==
    IF members = {} THEN 0
    ELSE LET i == CHOOSE m \in members : TRUE
         IN  df[c][i] + Sum(df, c, members \ {i})

\* mean: the sum and the count of the cells that are not missing (NaN when
\* the count is 0).
Mean(df, c, members) ==
    LET present == {i \in members : ~Missing(df, c, i)}
    IN  [sum |-> Sum(df, c, present), cnt |-> Cardinality(present)]

RECURSIVE SortedCells(_, _, _)
SortedCells(df, c, members) ==
    IF members = {} THEN <<>>
    ELSE LET i == CHOOSE m \in members : \A n \in members : df[c][m] <= df[c][n]
         IN  <<df[c][i]>> \o SortedCells(df, c, members \ {i})

\* median: the middle cell, or the mean of the two middle cells, as num/den.
Median(df, c, members) ==
    LET s == SortedCells(df, c, {i \in members : ~Missing(df, c, i)})
        n == Len(s)
    IN  IF n = 0 THEN [num |-> 0, den |-> 0]
        ELSE IF n % 2 = 1 THEN [num |-> s[(n + 1) \div 2], den |-> 1]
        ELSE [num |-> s[n \div 2] + s[n \div 2 + 1], den |-> 2]

\* data.describe(): the numeric columns, each with the count of its cells.
describe(df) ==
    LET numeric == DOMAIN df \ CatCols
    IN  [c \in numeric |-> [count |-> Count(df, c, Rows)]]

Describe ==
    /\ Goto("L66", "L67")
    /\ tables' = SetCol(tables, "summary_stats", describe(data))
    /\ UNCHANGED <<data, categories, observed, models, results_table, html_content, files>>

WriteSummaryHtml_NotWritten ==
    /\ Goto("L67", "L70")
    /\ UNCHANGED <<data, categories, observed, tables, models, results_table, html_content, files>>

WriteSummaryHtml ==
    /\ Goto("L67", "L70")
    /\ "summary_stats" \in DOMAIN tables
    /\ files' = SetCol(files, "summary.html", tables["summary_stats"])
    /\ UNCHANGED <<data, categories, observed, tables, models, results_table, html_content>>

\* The group keys of groupby(keys): category codes, in ascending order.  With
\* observed=False every combination of categories is a group; with
\* observed=True only the combinations that occur.  Rows with a missing key
\* belong to no group.
KeyOf(df, keys, i) == [k \in 1..Len(keys) |-> df[keys[k]][i]]

AllKeys(cat, keys) ==
    {key \in [1..Len(keys) -> 0..NRows] :
        \A k \in 1..Len(keys) : key[k] < Len(cat[keys[k]])}

SeenKeys(df, keys) ==
    {KeyOf(df, keys, i) : i \in {r \in Rows : \A k \in 1..Len(keys) : df[keys[k]][r] # -1}}

GroupKeys(df, cat, keys, obs) == IF obs THEN SeenKeys(df, keys) ELSE AllKeys(cat, keys)

RECURSIVE KeyLeq(_, _, _)
KeyLeq(a, b, k) ==
    IF k > Len(a) THEN TRUE
    ELSE IF a[k] = b[k] THEN KeyLeq(a, b, k + 1)
    ELSE a[k] < b[k]

RECURSIVE SortedKeys(_)
SortedKeys(S) ==
    IF S = {} THEN <<>>
    ELSE LET m == CHOOSE x \in S : \A y \in S : KeyLeq(x, y, 1)
         IN  <<m>> \o SortedKeys(S \ {m})

Members(df, keys, key) == {i \in Rows : KeyOf(df, keys, i) = key}

\* The key columns of a group's row after reset_index(): the category names.
KeyCells(cat, keys, key) ==
    [c \in {keys[k] : k \in 1..Len(keys)} |->
        LET k == CHOOSE n \in 1..Len(keys) : keys[n] = c
        IN  cat[c][key[k] + 1]]

\* groupby('gender').agg(...) of one column: the statistics asked for, among
\* mean, median and cnt.
GroupByGender(df, cat, obs, c, stats) ==
    LET groups == SortedKeys(GroupKeys(df, cat, <<"gender">>, obs))
    IN  [g \in 1..Len(groups) |->
            LET m == Members(df, <<"gender">>, groups[g])
            IN  [s \in stats \cup {"gender"} |->
                    CASE s = "gender" -> cat["gender"][groups[g][1] + 1]
                      [] s = "mean" -> Mean(df, c, m)
                      [] s = "median" -> Median(df, c, m)
                      [] s = "cnt" -> Count(df, c, m)]]

\* groupby([key, 'gender']).agg(meanTotalPay, cnt).reset_index()
GroupByKeyGender(df, cat, obs, key) ==
    LET keys == <<key, "gender">>
        groups == SortedKeys(GroupKeys(df, cat, keys, obs))
    IN  [g \in 1..Len(groups) |->
            LET m == Members(df, keys, groups[g])
            IN  KeyCells(cat, keys, groups[g]) @@
                [meanTotalPay |-> Mean(df, "totalPay", m),
                 cnt |-> Count(df, key, m)]]

\* sort_values(by, ascending): a stable sort of the rows on the category
\* codes of the by columns, each ascending or descending.
RECURSIVE RowBefore(_, _, _, _, _, _)
RowBefore(r1, r2, by, ascending_, cat, k) ==
    IF k > Len(by) THEN FALSE
    ELSE LET a == IndexOf(cat[by[k]], r1[by[k]])
             b == IndexOf(cat[by[k]], r2[by[k]])
         IN  IF a = b THEN RowBefore(r1, r2, by, ascending_, cat, k + 1)
             ELSE IF ascending_[k] THEN a < b ELSE a > b

RECURSIVE InsertRow(_, _, _, _, _)
InsertRow(sorted, r, by, ascending_, cat) ==
    IF sorted = <<>> THEN <<r>>
    ELSE IF RowBefore(r, Head(sorted), by, ascending_, cat, 1)
         THEN <<r>> \o sorted
         ELSE <<Head(sorted)>> \o InsertRow(Tail(sorted), r, by, ascending_, cat)

RECURSIVE sort_values(_, _, _, _)
sort_values(rows, by, ascending_, cat) ==
    IF rows = <<>> THEN <<>>
    ELSE InsertRow(sort_values(SubSeq(rows, 1, Len(rows) - 1), by, ascending_, cat),
                   rows[Len(rows)], by, ascending_, cat)

SummaryAscending_AllAscending == <<TRUE, TRUE>>
SummaryAscending == <<FALSE, TRUE>>

SummaryGender(from, to, name, c, stats) ==
    /\ Goto(from, to)
    /\ tables' = SetCol(tables, name, GroupByGender(data, categories, observed, c, stats))
    /\ UNCHANGED <<data, categories, observed, models, results_table, html_content, files>>

SummaryBase == SummaryGender("L70", "L78", "summary_base", "basePay", {"mean", "median", "cnt"})
SummaryTotal == SummaryGender("L78", "L86", "summary_total", "totalPay", {"mean", "median", "cnt"})
SummaryBonus == SummaryGender("L86", "L94", "summary_bonus", "bonus", {"mean", "median", "cnt"})
SummaryPerf == SummaryGender("L94", "L101", "summary_perf", "perfEval", {"mean", "cnt"})

SummaryDept ==
    /\ Goto("L101", "L108")
    /\ tables' = SetCol(tables, "summary_dept",
            sort_values(GroupByKeyGender(data, categories, observed, "dept"),
                        <<"dept", "gender">>, SummaryAscending, categories))
    /\ UNCHANGED <<data, categories, observed, models, results_table, html_content, files>>

SummaryJob ==
    /\ Goto("L108", "L125")
    /\ tables' = SetCol(tables, "summary_job",
            sort_values(GroupByKeyGender(data, categories, observed, "jobTitle"),
                        <<"jobTitle", "gender">>, SummaryAscending, categories))
    /\ UNCHANGED <<data, categories, observed, models, results_table, html_content, files>>

\* ------------------------------------------------------------ regression formulas
\* The formula strings, as tokens.
model1_formula == <<"log_base", "~", "male">>

model2_formula_NoEdu ==
    <<"log_base", "~", "male", "+", "perfEval", "+", "C", "(", "age_bin", ")">>

model2_formula ==
    <<"log_base", "~", "male", "+", "perfEval", "+", "C", "(", "age_bin", ")",
      "+", "C", "(", "edu", ")">>

model3_formula ==
    <<"log_base", "~", "male", "+", "perfEval", "+", "C", "(", "age_bin", ")",
      "+", "C", "(", "edu", ")", "+", "C", "(", "dept", ")", "+", "seniority",
      "+", "C", "(", "jobTitle", ")">>

dept_formula ==
    <<"log_base", "~", "male", "*", "C", "(", "dept", ")", "+", "perfEval",
      "+", "C", "(", "age_bin", ")", "+", "C", "(", "edu", ")", "+", "seniority",
      "+", "C", "(", "jobTitle", ")">>

job_formula ==
    <<"log_base", "~", "male", "*", "C", "(", "jobTitle", ")", "+", "perfEval",
      "+", "C", "(", "age_bin", ")", "+", "C", "(", "edu", ")", "+", "seniority",
      "+", "C", "(", "dept", ")">>

\* The pieces of a token sequence between the occurrences of sep.
Split(s, sep) ==
    LET at == {k \in 1..Len(s) : s[k] = sep}
        n == Cardinality(at)
        Pos(j) == IF j = 0 THEN 0
                  ELSE IF j = n + 1 THEN Len(s) + 1
                  ELSE CHOOSE k \in at : Cardinality({m \in at : m <= k}) = j
    IN  [j \in 1..(n + 1) |-> SubSeq(s, Pos(j - 1) + 1, Pos(j) - 1)]

\* A factor: a column, or C(column) for a column treated as categorical.
ParseFactor(toks) ==
    IF Len(toks) = 4 /\ toks[1] = "C" /\ toks[2] = "(" /\ toks[4] = ")"
    THEN [var |-> toks[3], categorical |-> TRUE]
    ELSE [var |-> toks[1], categorical |-> FALSE]

Factors(toks) ==
    LET fs == Split(toks, "*") IN {ParseFactor(fs[k]) : k \in 1..Len(fs)}

\* The terms of one summand: a*b stands for a + b + a:b, so the summand
\* gives every non-empty combination of its factors.
ParseProduct_InteractionOnly(toks) == {Factors(toks)}
ParseProduct(toks) == (SUBSET Factors(toks)) \ {{}}

\* The terms of the right-hand side; the empty term is the intercept, which
\* the formula language adds.
Terms(formula) ==
    LET rhs == Split(Split(formula, "~")[2], "+")
    IN  {{}} \cup UNION {ParseProduct(rhs[k]) : k \in 1..Len(rhs)}

DepVar(formula) == Split(formula, "~")[1][1]

FormulaVars(formula) ==
    {DepVar(formula)} \cup {f.var : f \in UNION Terms(formula)}

\* smf.ols(formula, data=data).fit(): every variable of the formula must be
\* a column of the data.
ols_fit(formula) == [formula |-> formula, endog |-> DepVar(formula), terms |-> Terms(formula)]

Fit(from, to, name, formula) ==
    /\ Goto(from, to)
    /\ FormulaVars(formula) \subseteq DOMAIN data
    /\ models' = SetCol(models, name, ols_fit(formula))
    /\ UNCHANGED <<data, categories, observed, tables, results_table, html_content, files>>

FitModel1 == Fit("L125", "L129", "model1", model1_formula)
FitModel2 == Fit("L129", "L133", "model2", model2_formula)
FitModel3 == Fit("L133", "L143", "model3", model3_formula)

\* ------------------------------------------------------------ regression table
model_list == <<"model1", "model2", "model3">>
model_names == <<"Model 1", "Model 2", "Model 3">>

\* <tr><td>c1</td><td>c2</td>...</tr>
RECURSIVE HtmlCells(_)
HtmlCells(cells) ==
    IF cells = <<>> THEN <<>>
    ELSE <<"<td>", Head(cells), "</td>">> \o HtmlCells(Tail(cells))

HtmlRow(cells) == <<"<tr>">> \o HtmlCells(cells) \o <<"</tr>">>

control_info_DeptInModel2 ==
    HtmlRow(<<"Controls:", "", "", "">>)
    \o HtmlRow(<<"Education", "No", "Yes", "Yes">>)
    \o HtmlRow(<<"Department", "No", "Yes", "Yes">>)
    \o HtmlRow(<<"Job Title", "No", "No", "Yes">>)

control_info ==
    HtmlRow(<<"Controls:", "", "", "">>)
    \o HtmlRow(<<"Education", "No", "Yes", "Yes">>)
    \o HtmlRow(<<"Department", "No", "No", "Yes">>)
    \o HtmlRow(<<"Job Title", "No", "No", "Yes">>)

\* summary_col(models, model_names=...): one column per model, in the order
\* of the list.  The coefficient rows hold fitted numbers and are not
\* represented.
summary_col(ms, names) == [models |-> ms, model_names |-> names]

\* results_table.as_html(): one table, with a header row of the model names.
as_html(table) ==
    <<"<table>">> \o HtmlRow(<<"">> \o table.model_names) \o <<"</table>">>

\* sep.join(pieces)
RECURSIVE Join(_, _)
Join(pieces, sep) ==
    IF Len(pieces) = 1 THEN pieces[1]
    ELSE pieces[1] \o sep \o Join(Tail(pieces), sep)

\* str.replace(old, new) on tokens: every occurrence of old is replaced.
Replace(s, old, new) == Join(Split(s, old), new)

SummaryCol ==
    /\ Goto("L143", "L161")
    /\ \A k \in 1..Len(model_list) : model_list[k] \in DOMAIN models
    /\ results_table' = summary_col(model_list, model_names)
    /\ UNCHANGED <<data, categories, observed, tables, models, html_content, files>>

AsHtml ==
    /\ Goto("L161", "L162")
    /\ html_content' = as_html(results_table)
    /\ UNCHANGED <<data, categories, observed, tables, models, results_table, files>>

AddControlInfo ==
    /\ Goto("L162", "L165")
    /\ html_content' = Replace(html_content, "</table>", control_info \o <<"</table>">>)
    /\ UNCHANGED <<data, categories, observed, tables, models, results_table, files>>

WriteFile(from, to, name, content) ==
    /\ Goto(from, to)
    /\ files' = SetCol(files, name, content)
    /\ UNCHANGED <<data, categories, observed, tables, models, results_table, html_content>>

WriteResultsHtml == WriteFile("L165", "L178", "results.html", html_content)

\* ------------------------------------------------------------ interaction models
\* The tidy table of a fitted model: one row per coefficient, of fitted
\* numbers; kept as the model it is taken from and its columns.
tidy(name) ==
    [model |-> name,
     columns |-> <<"term", "estimate", "std.error", "statistic", "p.value">>]

TidyTable(from, to, name, model) ==
    /\ Goto(from, to)
    /\ model \in DOMAIN models
    /\ tables' = SetCol(tables, name, tidy(model))
    /\ UNCHANGED <<data, categories, observed, models, results_table, html_content, files>>

\* dept_results.summary().as_html(): kept as the design it reports.
SummaryHtml(from, to, file, model) ==
    /\ model \in DOMAIN models
    /\ WriteFile(from, to, file, [summary |-> model, endog |-> models[model].endog])

FitDept == Fit("L178", "L182", "dept_results", dept_formula)
DeptResultsDf == TidyTable("L182", "L189", "dept_results_df", "dept_results")
WriteDeptCsv ==
    /\ "dept_results_df" \in DOMAIN tables
    /\ WriteFile("L189", "L192", "dept_clean.csv", tables["dept_results_df"])
WriteDeptHtml == SummaryHtml("L192", "L205", "dept.html", "dept_results")

FitJob == Fit("L205", "L209", "job_results", job_formula)
JobResultsDf == TidyTable("L209", "L216", "job_results_df", "job_results")
WriteJobCsv ==
    /\ "job_results_df" \in DOMAIN tables
    /\ WriteFile("L216", "L219", "job_clean.csv", tables["job_results_df"])
WriteJobHtml == SummaryHtml("L219", "done", "job.html", "job_results")

\* ------------------------------------------------------------ specification
Init ==
    /\ pc = "L33"
    /\ data \in read_csv
    /\ categories = <<>>
    /\ observed \in BOOLEAN
    /\ tables = <<>>
    /\ models = <<>>
    /\ results_table = <<>>
    /\ html_content = <<>>
    /\ files = <<>>

Next ==
    \/ AgeBinInit \/ AgeBin1 \/ AgeBin2 \/ AgeBin3 \/ AgeBin4 \/ AgeBin5
    \/ TotalPay \/ LogBase \/ LogTotal \/ LogBonus
    \/ Male
    \/ CastJobTitle \/ CastGender \/ CastEdu \/ CastDept
    \/ Describe \/ WriteSummaryHtml
    \/ SummaryBase \/ SummaryTotal \/ SummaryBonus \/ SummaryPerf
    \/ SummaryDept \/ SummaryJob
    \/ FitModel1 \/ FitModel2 \/ FitModel3
    \/ SummaryCol \/ AsHtml \/ AddControlInfo \/ WriteResultsHtml
    \/ FitDept \/ DeptResultsDf \/ WriteDeptCsv \/ WriteDeptHtml
    \/ FitJob \/ JobResultsDf \/ WriteJobCsv \/ WriteJobHtml

Spec == Init /\ [][Next]_vars

\* ------------------------------------------------------------ properties
DerivedCols ==
    {"age_bin", "totalPay", "log_base", "log_total", "log_bonus", "male"}
Aggregations ==
    {"summary_base", "summary_total", "summary_bonus", "summary_perf",
     "summary_dept", "summary_job"}
BaseModels == {"model1", "model2", "model3"}
AllModels == BaseModels \cup {"dept_results", "job_results"}
DeptFiles == {"dept_clean.csv", "dept.html"}
JobFiles == {"job_clean.csv", "job.html"}

TransformationDone == DerivedCols \subseteq DOMAIN data /\ CatCols \subseteq DOMAIN categories

\* C1, as stated: the run is staged, so that once any report file has been
\* written every groupby aggregation and every regression fit has been done.
C1_StagedOrder ==
    DOMAIN files # {} =>
        /\ TransformationDone
        /\ Aggregations \subseteq DOMAIN tables
        /\ AllModels \subseteq DOMAIN models

\* C1, amended: the statements run in one fixed order in which exports are
\* interleaved with the computations.  All data transformation comes first;
\* summary.html is written before any groupby aggregation; the six
\* aggregations come before the fits of model1..model3; results.html is
\* written after those fits and before the department model is fitted;
\* the department files are written after that fit and before the job title
\* model is fitted; the job title files are written after that fit.
C1_InterleavedOrder ==
    /\ (DOMAIN tables # {} \/ DOMAIN models # {} \/ DOMAIN files # {}) => TransformationDone
    /\ "summary.html" \in DOMAIN files => "summary_stats" \in DOMAIN tables
    /\ DOMAIN tables \cap Aggregations # {} => "summary.html" \in DOMAIN files
    /\ DOMAIN models # {} => Aggregations \subseteq DOMAIN tables
    /\ "results.html" \in DOMAIN files => BaseModels \subseteq DOMAIN models
    /\ "dept_results" \in DOMAIN models => "results.html" \in DOMAIN files
    /\ DOMAIN files \cap DeptFiles # {} => "dept_results" \in DOMAIN models
    /\ "job_results" \in DOMAIN models => DeptFiles \subseteq DOMAIN files
    /\ DOMAIN files \cap JobFiles # {} => "job_results" \in DOMAIN models
    /\ pc = "done" =>
          DOMAIN files = {"summary.html", "results.html"} \cup DeptFiles \cup JobFiles

\* results.html has been written while the department and job title models
\* are still to be fitted.
C1_Witness ==
    /\ "results.html" \in DOMAIN files
    /\ "dept_results" \notin DOMAIN models
    /\ "job_results" \notin DOMAIN models

\* The columns a model has as main effects, the intercept left out.
Regressors(m) == {f.var : f \in UNION {t \in m.terms : Cardinality(t) = 1}}
\* The interactions of a model, each as the set of the columns it crosses.
Interactions(m) == {{f.var : f \in t} : t \in {u \in m.terms : Cardinality(u) > 1}}

HumanCapital == {"male", "perfEval", "age_bin", "edu"}
AllControls == {"male", "perfEval", "age_bin", "edu", "dept", "seniority", "jobTitle"}

\* C2: the fitted model1, model2 and model3 all explain log_base, and their
\* regressor sets {male}, {male, perfEval, age_bin, edu} and {male, perfEval,
\* age_bin, edu, dept, seniority, jobTitle} grow strictly: each is a proper
\* subset of the next.
C2_IncreasingControls ==
    /\ \A n \in DOMAIN models \cap BaseModels : models[n].endog = "log_base"
    /\ "model1" \in DOMAIN models => Regressors(models["model1"]) = {"male"}
    /\ "model2" \in DOMAIN models =>
          /\ Regressors(models["model2"]) = HumanCapital
          /\ Regressors(models["model1"]) \subseteq Regressors(models["model2"])
          /\ Regressors(models["model1"]) # Regressors(models["model2"])
    /\ "model3" \in DOMAIN models =>
          /\ Regressors(models["model3"]) = AllControls
          /\ Regressors(models["model2"]) \subseteq Regressors(models["model3"])
          /\ Regressors(models["model2"]) # Regressors(models["model3"])
    /\ \A n \in DOMAIN models \cap BaseModels : Interactions(models[n]) = {}

C2_Witness == BaseModels \subseteq DOMAIN models

\* C3: each interaction model explains log_base and has exactly the main
\* effects of model3 plus exactly one interaction: male x dept in the
\* department model, male x jobTitle in the job title model.
C3_InteractionModels ==
    /\ "dept_results" \in DOMAIN models =>
          /\ models["dept_results"].endog = "log_base"
          /\ Regressors(models["dept_results"]) = Regressors(models["model3"])
          /\ Regressors(models["dept_results"]) = AllControls
          /\ Interactions(models["dept_results"]) = {{"male", "dept"}}
    /\ "job_results" \in DOMAIN models =>
          /\ models["job_results"].endog = "log_base"
          /\ Regressors(models["job_results"]) = Regressors(models["model3"])
          /\ Regressors(models["job_results"]) = AllControls
          /\ Interactions(models["job_results"]) = {{"male", "jobTitle"}}

C3_Witness == {"dept_results", "job_results"} \subseteq DOMAIN models

\* The bin the claim gives an age.
BinOfAge(a) ==
    IF a < 25 THEN 1 ELSE IF a < 35 THEN 2 ELSE IF a < 45 THEN 3
    ELSE IF a < 55 THEN 4 ELSE 5

AgeMasks == <<AgeMask1(data), AgeMask2(data), AgeMask3(data), AgeMask4(data), AgeMask5(data)>>

AgeBinsAssigned == pc \notin {"L33", "L34", "L35", "L36", "L37", "L38"}

\* C4: for every row with an age, exactly one of the five conditions holds;
\* while the assignments run the row's age_bin is either still 0 or already
\* its final bin (no assignment overwrites another); once the five have run,
\* age_bin is the bin of the age, in 1..5, and is non-decreasing in age.
C4_AgeBins ==
    /\ \A i \in Rows : data.age[i] # NaN =>
          Cardinality({k \in 1..5 : AgeMasks[k][i]}) = 1
    /\ HasCol(data, "age_bin") =>
          \A i \in Rows : data.age[i] # NaN =>
              data.age_bin[i] \in {0, BinOfAge(data.age[i])}
    /\ AgeBinsAssigned =>
          /\ \A i \in Rows : data.age[i] # NaN =>
                /\ data.age_bin[i] = BinOfAge(data.age[i])
                /\ data.age_bin[i] \in 1..5
          /\ \A i, j \in Rows :
                (data.age[i] # NaN /\ data.age[j] # NaN /\ data.age[i] <= data.age[j])
                    => data.age_bin[i] <= data.age_bin[j]

C4_Witness ==
    /\ AgeBinsAssigned
    /\ \E i, j \in Rows :
          /\ data.age[i] = 25 /\ data.age_bin[i] = 2
          /\ data.age[j] = 55 /\ data.age_bin[j] = 5

\* The gender of a row, read back through the categories once the column
\* has been cast.
GenderOf(i) == Decode(data, categories, "gender", i, NaNStr)

MaleComputed == HasCol(data, "male")

\* C5, as stated: male is 0 or 1, is 1 exactly for gender 'Male' and is 0
\* exactly for gender 'Female'.
C5_MaleIffMale_ZeroIffFemale ==
    MaleComputed =>
        \A i \in Rows :
            /\ data.male[i] \in {0, 1}
            /\ data.male[i] = 1 <=> GenderOf(i) = "Male"
            /\ data.male[i] = 0 <=> GenderOf(i) = "Female"

CastKeepsMale == pc \in {"L55", "L56", "L57", "L58"} => data'.male = data.male

\* C5, amended: male is 0 or 1 and is 1 exactly for gender 'Male'; every
\* other gender, 'Female' or missing, gives 0.  The dummy is computed
\* before the gender column is cast to a category, and no cast changes it.
C5_MaleDummy ==
    /\ [](/\ MaleComputed =>
                \A i \in Rows :
                    /\ data.male[i] \in {0, 1}
                    /\ data.male[i] = 1 <=> GenderOf(i) = "Male"
                    /\ GenderOf(i) = "Female" => data.male[i] = 0
          /\ "gender" \in DOMAIN categories => MaleComputed)
    /\ [][CastKeepsMale]_vars

C5_Witness ==
    /\ "gender" \in DOMAIN categories
    /\ \E i, j \in Rows :
          /\ GenderOf(i) = "Male" /\ data.male[i] = 1
          /\ GenderOf(j) = "Female" /\ data.male[j] = 0

\* C6: totalPay is basePay + bonus and exists when log_total is taken; the
\* logarithms are taken of basePay, basePay + bonus and bonus + 1; a row with
\* bonus 0 has log_bonus argument 1; and in every row with basePay >= 1 and
\* bonus >= 0 each argument is >= 1.
C6_PayAndLogs ==
    /\ HasCol(data, "totalPay") =>
          \A i \in Rows : data.totalPay[i] = data.basePay[i] + data.bonus[i]
    /\ HasCol(data, "log_total") =>
          /\ HasCol(data, "totalPay")
          /\ \A i \in Rows : data.log_total[i].log = data.basePay[i] + data.bonus[i]
    /\ HasCol(data, "log_base") =>
          \A i \in Rows : data.log_base[i].log = data.basePay[i]
    /\ HasCol(data, "log_bonus") =>
          \A i \in Rows :
              /\ data.log_bonus[i].log = data.bonus[i] + 1
              /\ data.bonus[i] = 0 => data.log_bonus[i].log = 1
    /\ \A c \in LogCols \cap DOMAIN data : \A i \in Rows :
          (data.basePay[i] >= 1 /\ data.bonus[i] >= 0) => data[c][i].log >= 1

C6_Witness ==
    /\ LogCols \subseteq DOMAIN data
    /\ \E i, j \in Rows :
          /\ data.basePay[i] >= 1 /\ data.bonus[i] = 0 /\ data.log_bonus[i].log = 1
          /\ data.basePay[j] >= 1 /\ data.bonus[j] > 0
          /\ data.log_total[j].log > data.log_base[j].log

\* The order of two cells of a key column: names by lexicographic order.
CellLess(c, a, b) == IF c = "gender" THEN TextRank(a) < TextRank(b) ELSE a < b

SummaryOrdered(name, key) ==
    name \in DOMAIN tables =>
        LET t == tables[name]
        IN  /\ \A n \in 1..(Len(t) - 1) :
                  \/ CellLess(key, t[n + 1][key], t[n][key])
                  \/ /\ t[n][key] = t[n + 1][key]
                     /\ ~CellLess("gender", t[n + 1].gender, t[n].gender)
            /\ \A m, n \in 1..Len(t) :
                  (t[m][key] = t[n][key] /\ t[m].gender = t[n].gender) => m = n

\* C7: summary_dept and summary_job are ordered by dept (jobTitle)
\* descending and, within one dept (jobTitle), by gender ascending, and hold
\* each (key, gender) pair in at most one row.
C7_SummaryOrder ==
    /\ SummaryOrdered("summary_dept", "dept")
    /\ SummaryOrdered("summary_job", "jobTitle")

C7_Witness ==
    /\ "summary_job" \in DOMAIN tables
    /\ \E m, n \in 1..Len(tables["summary_dept"]) :
          /\ m < n
          /\ tables["summary_dept"][m].dept > tables["summary_dept"][n].dept
    /\ \E m, n \in 1..Len(tables["summary_dept"]) :
          /\ m < n
          /\ tables["summary_dept"][m].dept = tables["summary_dept"][n].dept
          /\ tables["summary_dept"][m].gender = "Female"
          /\ tables["summary_dept"][n].gender = "Male"
    /\ \E m, n \in 1..Len(tables["summary_job"]) :
          /\ m < n
          /\ tables["summary_job"][m].jobTitle > tables["summary_job"][n].jobTitle

\* The rows of an HTML table, each the sequence of the texts of its cells.
CellTexts(toks) ==
    LET at == {k \in 1..(Len(toks) - 1) : toks[k] = "<td>"}
    IN  [n \in 1..Cardinality(at) |->
            toks[(CHOOSE k \in at : Cardinality({m \in at : m <= k}) = n) + 1]]

HtmlRows(toks) ==
    LET chunks == Split(toks, "</tr>")
    IN  [k \in 1..(Len(chunks) - 1) |-> CellTexts(chunks[k])]

ControlColumn == ("Education" :> "edu") @@ ("Department" :> "dept") @@ ("Job Title" :> "jobTitle")

ControlsAgree(html) ==
    LET rows == HtmlRows(html)
        controls == {k \in 1..Len(rows) : rows[k] # <<>> /\ rows[k][1] \in DOMAIN ControlColumn}
    IN  /\ {rows[k][1] : k \in controls} = DOMAIN ControlColumn
        /\ \A k \in controls :
              /\ Len(rows[k]) = 1 + Len(results_table.models)
              /\ \A j \in 1..Len(results_table.models) :
                    /\ rows[k][j + 1] \in {"Yes", "No"}
                    /\ rows[k][j + 1] = "Yes" <=>
                          ControlColumn[rows[k][1]] \in
                              Regressors(models[results_table.models[j]])

\* C8: in the HTML written to results.html, each of the rows Education,
\* Department and Job Title has one label cell and one cell per model, and
\* the cell of a model says Yes exactly when the model's formula has the
\* regressor edu, dept or jobTitle.
C8_ControlsRows ==
    /\ pc \in {"L165"} => ControlsAgree(html_content)
    /\ "results.html" \in DOMAIN files => ControlsAgree(files["results.html"])

C8_Witness ==
    /\ "results.html" \in DOMAIN files
    /\ Len(HtmlRows(files["results.html"])) = 5
    /\ HtmlRows(files["results.html"])[3] = <<"Education", "No", "Yes", "Yes">>

====
